---- MODULE Spec2Model ----
(***************************************************************************)
(* The transition layer editor (TransitionContent): one text buffer        *)
(* (intermediateValue), the externally owned layer and index props, the    *)
(* calls the component issues to onEditLayer and deleteTransitionLayer,    *)
(* and the user event handled last (event).  A second instance of the      *)
(* component, for another layer of the same transition value, is kept in   *)
(* peer while this one handles events.                                     *)
(*                                                                         *)
(* A text is a sequence of lexemes (the whitespace-separated words of the  *)
(* string; the lexeme "," separates layers).  A style value is a record    *)
(* with a "type" tag, as in the css-engine.                                *)
(***************************************************************************)
EXTENDS Integers, Sequences, FiniteSets, TLC

VARIABLES intermediateValue, layer, index, editCalls, deleteCalls, event, peer

component == <<intermediateValue, layer, index, editCalls, deleteCalls>>

vars == <<intermediateValue, layer, index, editCalls, deleteCalls, event, peer>>

----------------------------------------------------------------------------
(* Bounds of the model *)

MaxCalls == 2
MaxCallsTwo == 1
MaxCallsRoundTrip == 1

----------------------------------------------------------------------------
(* Values *)

Null == [type |-> "null"]
NotGiven == [type |-> "notgiven"]
Unset == [type |-> "undefined"]
NoOptions == [type |-> "omitted"]
NoPeer == [type |-> "none"]

Keyword(v) == [type |-> "keyword", value |-> v]
Unit(n, u) == [type |-> "unit", value |-> n, unit |-> u]

AnimatableProperties == {"opacity"}
TimingFunctions == {"ease"}
TimeUnits == {"ms", "s"}
Numbers == {0, 50, 200}

defaultTransitionProperty == Keyword("opacity")
defaultTransitionDuration == Unit(0, "ms")
defaultTransitionDelay == Unit(0, "ms")
defaultTransitionTimingFunction == Keyword("ease")

FieldOrder == <<"property", "duration", "delay", "timing">>
Fields == {"property", "duration", "delay", "timing"}

Options == {[isEphemeral |-> TRUE], [isEphemeral |-> FALSE]}

----------------------------------------------------------------------------
(* toValue: the text of a tuple, one lexeme per item *)

ItemText(item) ==
    IF item.type = "keyword" THEN item.value
    ELSE ToString(item.value) \o item.unit

toValue(tuple) == [i \in 1..Len(tuple.value) |-> ItemText(tuple.value[i])]

----------------------------------------------------------------------------
(* parseTransition: text to layers, or invalid *)

KnownTimes == {Unit(n, u) : n \in Numbers, u \in TimeUnits}

TimeLexemes == {ItemText(t) : t \in KnownTimes}

TimeOfLexeme == [s \in TimeLexemes |-> CHOOSE t \in KnownTimes : ItemText(t) = s]

ParseLexeme(s) ==
    IF s \in AnimatableProperties \cup TimingFunctions THEN Keyword(s)
    ELSE IF s \in TimeLexemes THEN TimeOfLexeme[s]
    ELSE Null

IsPropertyItem(item) == item.type = "keyword" /\ item.value \in AnimatableProperties
IsTimingItem(item) == item.type = "keyword" /\ item.value \in TimingFunctions
IsUnitItem(item) == item.type = "unit"
IsNullItem(item) == item = Null

\* one layer: at least one item, every lexeme known, at most one property,
\* at most one timing function and at most two times
ValidLayerItems(items) ==
    /\ Len(items) > 0
    /\ Len(SelectSeq(items, IsNullItem)) = 0
    /\ Len(SelectSeq(items, IsPropertyItem)) <= 1
    /\ Len(SelectSeq(items, IsTimingItem)) <= 1
    /\ Len(SelectSeq(items, IsUnitItem)) <= 2

RECURSIVE SplitLayers(_)
SplitLayers(text) ==
    IF \A i \in 1..Len(text) : text[i] # ","
    THEN <<text>>
    ELSE LET k == CHOOSE i \in 1..Len(text) :
                      /\ text[i] = ","
                      /\ \A j \in 1..(i - 1) : text[j] # ","
         IN <<SubSeq(text, 1, k - 1)>> \o SplitLayers(SubSeq(text, k + 1, Len(text)))

ParseLayer(lexemes) == [i \in 1..Len(lexemes) |-> ParseLexeme(lexemes[i])]

parseTransition(text) ==
    LET parts == SplitLayers(text)
        parsed == [i \in 1..Len(parts) |-> ParseLayer(parts[i])]
    IN IF \A i \in 1..Len(parsed) : ValidLayerItems(parsed[i])
       THEN [type |-> "layers",
             value |-> [i \in 1..Len(parsed) |-> [type |-> "tuple", value |-> parsed[i]]]]
       ELSE [type |-> "invalid"]

----------------------------------------------------------------------------
(* extractTransitionProperties: the four fields of a tuple *)

\* the n-th of the items found, or null
NthOrNull(hits, n) == IF Len(hits) >= n THEN hits[n] ELSE Null

\* the first time is the duration, the second the delay
extractTransitionProperties(tuple) ==
    [property |-> NthOrNull(SelectSeq(tuple.value, IsPropertyItem), 1),
     duration |-> NthOrNull(SelectSeq(tuple.value, IsUnitItem), 1),
     delay    |-> NthOrNull(SelectSeq(tuple.value, IsUnitItem), 2),
     timing   |-> NthOrNull(SelectSeq(tuple.value, IsTimingItem), 1)]

----------------------------------------------------------------------------
(* The inputs the model draws from *)

\* the layers the store may hand to the component
Layers ==
    {[type |-> "tuple", value |-> v] : v \in
        {<<Keyword("opacity")>>,
         <<Keyword("opacity"), Unit(200, "ms")>>,
         <<Keyword("opacity"), Unit(200, "ms"), Unit(50, "ms"), Keyword("ease")>>}}

\* what the user can type into the text area
TypedTexts ==
    {<<>>,
     <<"not", "a", "transition">>,
     <<"opacity", "50ms">>,
     <<"opacity", "200ms", ",", "ease", "0s">>}

\* the positions the layer of this editor may have in the transition value
Indices == {0, 1}

\* the values a sub-editor can hand to handlePropertyUpdate for one field
FieldValues(f) ==
    CASE f = "property" -> {Keyword("opacity")}
      [] f = "timing"   -> {Keyword("ease")}
      [] OTHER          -> {Unit(50, "ms"), Unit(10, "px")}

NoParams == [f \in Fields |-> NotGiven]

----------------------------------------------------------------------------
(* The component *)

Intermediate(text) == [type |-> "intermediate", value |-> text]
Invalid(text) == [type |-> "invalid", value |-> text]

\* onEditLayer as it would be called if the index prop were not passed on
EditCallFirst(i, layers, options) == [index |-> 0, layers |-> layers, options |-> options]

EditCall(i, layers, options) == [index |-> i, layers |-> layers, options |-> options]
DeleteCall(i, options) == [index |-> i, options |-> options]

\* on mount the buffer holds propertyValue, the text of the layer
Init ==
    /\ layer \in Layers
    /\ index \in Indices
    /\ intermediateValue = Intermediate(toValue(layer))
    /\ editCalls = <<>>
    /\ deleteCalls = <<>>
    /\ event = [op |-> "mount"]
    /\ peer = NoPeer

\* handleChange as it would be if typing were validated on every keystroke
handleChangeValidating(value) ==
    /\ intermediateValue' =
           IF parseTransition(value).type = "invalid"
           THEN Invalid(value) ELSE Intermediate(value)
    /\ UNCHANGED <<layer, index, editCalls, deleteCalls>>

handleChange(value) ==
    /\ intermediateValue' = Intermediate(value)
    /\ UNCHANGED <<layer, index, editCalls, deleteCalls>>

\* handleComplete without the check of the parse result
handleCompleteUnchecked(options) ==
    IF intermediateValue = Unset
    THEN UNCHANGED component
    ELSE /\ editCalls' = Append(editCalls,
                EditCall(index, parseTransition(intermediateValue.value), options))
         /\ UNCHANGED <<intermediateValue, layer, index, deleteCalls>>

\* handleComplete committing as final whatever the options
handleCompleteFinal(options) ==
    IF intermediateValue = Unset
    THEN UNCHANGED component
    ELSE LET layers == parseTransition(intermediateValue.value)
         IN IF layers.type = "invalid"
            THEN /\ intermediateValue' = Invalid(intermediateValue.value)
                 /\ UNCHANGED <<layer, index, editCalls, deleteCalls>>
            ELSE /\ editCalls' = Append(editCalls,
                        EditCall(index, layers, [isEphemeral |-> FALSE]))
                 /\ UNCHANGED <<intermediateValue, layer, index, deleteCalls>>

\* handleComplete clearing the buffer once it has committed
handleCompleteClearing(options) ==
    IF intermediateValue = Unset
    THEN UNCHANGED component
    ELSE LET layers == parseTransition(intermediateValue.value)
         IN IF layers.type = "invalid"
            THEN /\ intermediateValue' = Invalid(intermediateValue.value)
                 /\ UNCHANGED <<layer, index, editCalls, deleteCalls>>
            ELSE /\ editCalls' = Append(editCalls, EditCall(index, layers, options))
                 /\ intermediateValue' = Unset
                 /\ UNCHANGED <<layer, index, deleteCalls>>

\* handleComplete without the early return, reading an absent buffer as ""
handleCompleteUnguarded(options) ==
    LET text == IF intermediateValue = Unset THEN <<>> ELSE intermediateValue.value
        layers == parseTransition(text)
    IN IF layers.type = "invalid"
       THEN /\ intermediateValue' = Invalid(text)
            /\ UNCHANGED <<layer, index, editCalls, deleteCalls>>
       ELSE /\ editCalls' = Append(editCalls, EditCall(index, layers, options))
            /\ UNCHANGED <<intermediateValue, layer, index, deleteCalls>>

\* handleComplete with the check of the parse result inverted
handleCompleteInverted(options) ==
    IF intermediateValue = Unset
    THEN UNCHANGED component
    ELSE LET layers == parseTransition(intermediateValue.value)
         IN IF layers.type # "invalid"
            THEN /\ intermediateValue' = Invalid(intermediateValue.value)
                 /\ UNCHANGED <<layer, index, editCalls, deleteCalls>>
            ELSE /\ editCalls' = Append(editCalls, EditCall(index, layers, options))
                 /\ UNCHANGED <<intermediateValue, layer, index, deleteCalls>>

handleComplete(options) ==
    IF intermediateValue = Unset
    THEN UNCHANGED component
    ELSE LET layers == parseTransition(intermediateValue.value)
         IN IF layers.type = "invalid"
            THEN /\ intermediateValue' = Invalid(intermediateValue.value)
                 /\ UNCHANGED <<layer, index, editCalls, deleteCalls>>
            ELSE /\ editCalls' = Append(editCalls, EditCall(index, layers, options))
                 /\ UNCHANGED <<intermediateValue, layer, index, deleteCalls>>

DefaultOf(f) ==
    CASE f = "property" -> defaultTransitionProperty
      [] f = "duration" -> defaultTransitionDuration
      [] f = "delay"    -> defaultTransitionDelay
      [] f = "timing"   -> defaultTransitionTimingFunction

\* the merge as it would be if absent fields took their defaults
MergedFieldsDefaulted(params) ==
    LET current == extractTransitionProperties(layer)
    IN [f \in Fields |->
           IF params[f] # NotGiven THEN params[f]
           ELSE IF current[f] # Null THEN current[f]
           ELSE DefaultOf(f)]

\* the merge as it would be if it were over the fields of the text in the
\* buffer, when that text parses, instead of the fields of the layer
MergedFieldsFromBuffer(params) ==
    LET typed == IF intermediateValue = Unset THEN [type |-> "invalid"]
                 ELSE parseTransition(intermediateValue.value)
        current == extractTransitionProperties(
                       IF typed.type = "layers" THEN typed.value[1] ELSE layer)
    IN [f \in Fields |-> IF params[f] # NotGiven THEN params[f] ELSE current[f]]

\* Object.values({...{property, duration, delay, timing}, ...params}).filter(item != null)
MergedFields(params) ==
    LET current == extractTransitionProperties(layer)
    IN [f \in Fields |-> IF params[f] # NotGiven THEN params[f] ELSE current[f]]

IsPresent(item) == item # Null

IsGiven(item) == item # NotGiven

\* the values as they would be listed if the given fields came first
MergedValueGivenFirst(params) ==
    LET given == SelectSeq(FieldOrder, LAMBDA f : IsGiven(params[f]))
        rest == SelectSeq(FieldOrder, LAMBDA f : ~IsGiven(params[f]))
        order == given \o rest
    IN SelectSeq([i \in 1..4 |-> MergedFields(params)[order[i]]], IsPresent)

MergedValue(params) ==
    SelectSeq([i \in 1..4 |-> MergedFields(params)[FieldOrder[i]]], IsPresent)

NewLayer(params) == [type |-> "tuple", value |-> MergedValue(params)]

\* the default of the options parameter as it would be if it were ephemeral
OptionsOrEphemeral(options) ==
    IF options = NoOptions THEN [isEphemeral |-> TRUE] ELSE options

OptionsOrDefault(options) ==
    IF options = NoOptions THEN [isEphemeral |-> FALSE] ELSE options

\* handlePropertyUpdate leaving the buffer alone when the parse fails
handlePropertyUpdateSilent(params, options) ==
    LET newLayer == NewLayer(params)
        layers == parseTransition(toValue(newLayer))
    IN IF layers.type = "invalid"
       THEN UNCHANGED component
       ELSE /\ intermediateValue' = Intermediate(toValue(newLayer))
            /\ editCalls' = Append(editCalls,
                                   EditCall(index, layers, OptionsOrDefault(options)))
            /\ UNCHANGED <<layer, index, deleteCalls>>

\* handlePropertyUpdate committing without showing the committed text
handlePropertyUpdateStale(params, options) ==
    LET newLayer == NewLayer(params)
        layers == parseTransition(toValue(newLayer))
    IN IF layers.type = "invalid"
       THEN /\ intermediateValue' = Invalid(toValue(newLayer))
            /\ UNCHANGED <<layer, index, editCalls, deleteCalls>>
       ELSE /\ editCalls' = Append(editCalls,
                                   EditCall(index, layers, OptionsOrDefault(options)))
            /\ UNCHANGED <<intermediateValue, layer, index, deleteCalls>>

\* handlePropertyUpdate with the check of the parse result inverted
handlePropertyUpdateInverted(params, options) ==
    LET newLayer == NewLayer(params)
        layers == parseTransition(toValue(newLayer))
    IN IF layers.type # "invalid"
       THEN /\ intermediateValue' = Invalid(toValue(newLayer))
            /\ UNCHANGED <<layer, index, editCalls, deleteCalls>>
       ELSE /\ intermediateValue' = Intermediate(toValue(newLayer))
            /\ editCalls' = Append(editCalls,
                                   EditCall(index, layers, OptionsOrDefault(options)))
            /\ UNCHANGED <<layer, index, deleteCalls>>

handlePropertyUpdate(params, options) ==
    LET newLayer == NewLayer(params)
        layers == parseTransition(toValue(newLayer))
    IN IF layers.type = "invalid"
       THEN /\ intermediateValue' = Invalid(toValue(newLayer))
            /\ UNCHANGED <<layer, index, editCalls, deleteCalls>>
       ELSE /\ intermediateValue' = Intermediate(toValue(newLayer))
            /\ editCalls' = Append(editCalls,
                                   EditCall(index, layers, OptionsOrDefault(options)))
            /\ UNCHANGED <<layer, index, deleteCalls>>

\* the Escape handler without the early return
onEscapeUnguarded ==
    /\ deleteCalls' = Append(deleteCalls, DeleteCall(index, [isEphemeral |-> TRUE]))
    /\ intermediateValue' = Unset
    /\ UNCHANGED <<layer, index, editCalls>>

\* the Escape handler as it would be if the deletion were final
onEscapeFinal ==
    IF intermediateValue = Unset
    THEN UNCHANGED component
    ELSE /\ deleteCalls' = Append(deleteCalls, DeleteCall(index, [isEphemeral |-> FALSE]))
         /\ intermediateValue' = Unset
         /\ UNCHANGED <<layer, index, editCalls>>

onEscape ==
    IF intermediateValue = Unset
    THEN UNCHANGED component
    ELSE /\ deleteCalls' = Append(deleteCalls, DeleteCall(index, [isEphemeral |-> TRUE]))
         /\ intermediateValue' = Unset
         /\ UNCHANGED <<layer, index, editCalls>>

\* value={intermediateValue?.value ?? ""}
TextAreaValue ==
    IF intermediateValue = Unset THEN <<>> ELSE intermediateValue.value

\* the color as it would be if every buffer but an intermediate one were an error
TextAreaColorNotIntermediate ==
    IF intermediateValue.type # "intermediate" THEN "error" ELSE "default"

\* color={intermediateValue?.type === "invalid" ? "error" : undefined}
TextAreaColor ==
    IF intermediateValue # Unset /\ intermediateValue.type = "invalid"
    THEN "error" ELSE "default"

\* the model follows the component until it has issued MaxCalls calls
HasBudget == Len(editCalls) + Len(deleteCalls) < MaxCalls

OnTextEdit ==
    \E value \in TypedTexts :
        /\ handleChange(value)
        /\ event' = [op |-> "OnTextEdit", text |-> value]
        /\ UNCHANGED peer

\* loss of focus
OnBlur ==
    /\ HasBudget
    /\ handleComplete([isEphemeral |-> TRUE])
    /\ event' = [op |-> "OnCommitRequest", options |-> [isEphemeral |-> TRUE]]
    /\ UNCHANGED peer

\* the Enter key
OnEnter ==
    /\ HasBudget
    /\ handleComplete([isEphemeral |-> FALSE])
    /\ event' = [op |-> "OnCommitRequest", options |-> [isEphemeral |-> FALSE]]
    /\ UNCHANGED peer

\* a structured sub-editor sets one field: onPropertySelection, setValue,
\* onTimingSelection
OnFieldEdit ==
    \E f \in Fields, options \in Options \cup {NoOptions} :
        \E v \in FieldValues(f) :
            LET params == [NoParams EXCEPT ![f] = v]
            IN /\ HasBudget
               /\ handlePropertyUpdate(params, options)
               /\ event' = [op |-> "OnFieldEdit", via |-> "setValue",
                            params |-> params, options |-> options]
               /\ UNCHANGED peer

\* deleteProperty as it would be if it put the default in place of the field
OnFieldDeleteDefault ==
    \E f \in {"duration", "delay"} :
        LET params == [NoParams EXCEPT ![f] = DefaultOf(f)]
        IN /\ HasBudget
           /\ handlePropertyUpdate(params, NoOptions)
           /\ event' = [op |-> "OnFieldEdit", via |-> "deleteProperty",
                        params |-> params, options |-> NoOptions]
           /\ UNCHANGED peer

\* the duration or delay sub-editor asks to delete its field: deleteProperty
OnFieldDelete ==
    \E f \in {"duration", "delay"} :
        LET params == [NoParams EXCEPT ![f] = extractTransitionProperties(layer)[f]]
        IN /\ HasBudget
           /\ handlePropertyUpdate(params, NoOptions)
           /\ event' = [op |-> "OnFieldEdit", via |-> "deleteProperty",
                        params |-> params, options |-> NoOptions]
           /\ UNCHANGED peer

\* the Escape key
OnCancel ==
    /\ HasBudget
    /\ onEscape
    /\ event' = [op |-> "OnCancel"]
    /\ UNCHANGED peer

Next ==
    \/ OnTextEdit
    \/ OnBlur
    \/ OnEnter
    \/ OnFieldEdit
    \/ OnFieldDelete
    \/ OnCancel

Spec == Init /\ [][Next]_vars

----------------------------------------------------------------------------
(* Two instances of the component, for two layers of one transition value *)

Instance(buffer, l, i) == [intermediateValue |-> buffer, layer |-> l, index |-> i]

\* both instances are mounted, each on its own layer and index; the layer at
\* the lower index is the shorter one
InitTwo ==
    /\ layer \in Layers
    /\ index \in Indices
    /\ intermediateValue = Intermediate(toValue(layer))
    /\ editCalls = <<>>
    /\ deleteCalls = <<>>
    /\ event = [op |-> "mount"]
    /\ \E l \in Layers, i \in Indices :
           /\ index < i
           /\ Len(layer.value) < Len(l.value)
           /\ peer = Instance(Intermediate(toValue(l)), l, i)

\* the user turns to the other instance: its state and props are the ones the
\* handlers now close over
OnFocusOther ==
    /\ peer # NoPeer
    /\ intermediateValue' = peer.intermediateValue
    /\ layer' = peer.layer
    /\ index' = peer.index
    /\ peer' = Instance(intermediateValue, layer, index)
    /\ event' = [op |-> "focus"]
    /\ UNCHANGED <<editCalls, deleteCalls>>

\* the model follows the two instances until they have issued MaxCallsTwo calls
HasBudgetTwo == Len(editCalls) + Len(deleteCalls) < MaxCallsTwo

NextTwo ==
    \/ HasBudgetTwo /\ Next
    \/ OnFocusOther

SpecTwo == InitTwo /\ [][NextTwo]_vars

----------------------------------------------------------------------------
(* The handlers on every layer the extractor can describe *)

OrNull(S) == S \cup {Null}

Present(v) == IF v = Null THEN <<>> ELSE <<v>>

\* the times of the layers below, in both units
RoundTripTimes == {Unit(0, "s"), Unit(50, "ms"), Unit(200, "ms")}

\* the tuples of a property, a duration, a delay and a timing function, each
\* present or not, a delay only after a duration, and not all absent
RoundTripLayers ==
    {[type |-> "tuple", value |-> Present(p) \o Present(d) \o Present(e) \o Present(t)] :
        p \in OrNull({Keyword(k) : k \in AnimatableProperties}),
        d \in OrNull(RoundTripTimes),
        e \in OrNull(RoundTripTimes),
        t \in OrNull({Keyword(k) : k \in TimingFunctions})}
    \ {[type |-> "tuple", value |-> <<>>]}

InitRoundTrip ==
    /\ layer \in RoundTripLayers
    /\ index \in Indices
    /\ intermediateValue = Intermediate(toValue(layer))
    /\ editCalls = <<>>
    /\ deleteCalls = <<>>
    /\ event = [op |-> "mount"]
    /\ peer = NoPeer

\* the model follows the component until it has issued MaxCallsRoundTrip calls
HasBudgetRoundTrip == Len(editCalls) + Len(deleteCalls) < MaxCallsRoundTrip

NextRoundTrip ==
    \/ HasBudgetRoundTrip /\ OnFieldEdit
    \/ HasBudgetRoundTrip /\ OnFieldDelete

SpecRoundTrip == InitRoundTrip /\ [][NextRoundTrip]_vars

----------------------------------------------------------------------------
(* What the properties below speak about *)

Last(seq) == seq[Len(seq)]

\* the step is the handling of a commit request that finds a buffer
CommitRequestStep == event'.op = "OnCommitRequest" /\ intermediateValue # Unset

FieldEditStep == event'.op = "OnFieldEdit"

\* the text a field edit serializes
SerializedText(params) == toValue(NewLayer(params))

\* the text the step hands to parseTransition
ParsedText ==
    IF event'.op = "OnCommitRequest" THEN intermediateValue.value
    ELSE SerializedText(event'.params)

ParsingStep == CommitRequestStep \/ FieldEditStep

----------------------------------------------------------------------------
\* C1: onEditLayer is invoked only by an OnCommitRequest or OnFieldEdit whose
\* parseTransition call returned layers; a step whose parse result is invalid
\* leaves the calls to onEditLayer as they were.
CommitOnlyOnValidParse ==
    [][/\ (editCalls' # editCalls) =>
              /\ ParsingStep
              /\ parseTransition(ParsedText).type = "layers"
       /\ (ParsingStep /\ parseTransition(ParsedText).type = "invalid") =>
              editCalls' = editCalls]_vars

\* an invalid text was parsed, and no call was made
CommitOnlyOnValidParseWitness ==
    /\ event.op = "OnCommitRequest"
    /\ intermediateValue = Invalid(<<"not", "a", "transition">>)
    /\ editCalls = <<>>

\* C2: OnTextEdit(newText) leaves the buffer Intermediate(newText), whatever the
\* buffer was and whether or not newText parses, and issues no call.
TypingNeverValidates ==
    [][event'.op = "OnTextEdit" =>
           /\ intermediateValue' = Intermediate(event'.text)
           /\ UNCHANGED <<editCalls, deleteCalls>>]_vars

\* text that does not parse was typed, after an Invalid or Unset buffer
TypingNeverValidatesWitness ==
    /\ event.op = "OnTextEdit"
    /\ parseTransition(event.text).type = "invalid"
    /\ intermediateValue = Intermediate(event.text)
    /\ Len(deleteCalls) = 1
    /\ editCalls = <<>>

----------------------------------------------------------------------------
(* The fields of a field edit, stated field by field *)

\* the field the claim expects in the serialized tuple when absent fields are
\* omitted: the given value, else the value extracted from the layer
FieldKept(params, f) ==
    IF params[f] # NotGiven THEN params[f]
    ELSE extractTransitionProperties(layer)[f]

\* the same with the configured default for a field absent from both
FieldDefaulted(params, f) ==
    IF FieldKept(params, f) # Null THEN FieldKept(params, f) ELSE DefaultOf(f)

Lexeme(item) == IF item = Null THEN <<>> ELSE <<ItemText(item)>>

TextKept(params) ==
    Lexeme(FieldKept(params, "property")) \o Lexeme(FieldKept(params, "duration"))
        \o Lexeme(FieldKept(params, "delay")) \o Lexeme(FieldKept(params, "timing"))

TextDefaulted(params) ==
    Lexeme(FieldDefaulted(params, "property")) \o Lexeme(FieldDefaulted(params, "duration"))
        \o Lexeme(FieldDefaulted(params, "delay")) \o Lexeme(FieldDefaulted(params, "timing"))

\* C3 as stated: the text OnFieldEdit serializes has the given value for every
\* field given, the extracted value for every field not given, and the
\* configured default for every field absent from both.
PartialFieldMergeDefaults ==
    [][FieldEditStep => intermediateValue'.value = TextDefaulted(event'.params)]_vars

\* C3: the text OnFieldEdit serializes has, in the order property, duration,
\* delay, timing, the given value for every field given and the extracted
\* value for every field not given; a field absent from both is omitted.
PartialFieldMerge ==
    [][FieldEditStep => intermediateValue'.value = TextKept(event'.params)]_vars

\* current {property, duration} and OnFieldEdit({delay}): property, duration
\* and delay are serialized, and no timing
PartialFieldMergeWitness ==
    /\ event.op = "OnFieldEdit"
    /\ extractTransitionProperties(layer).timing = Null
    /\ extractTransitionProperties(layer).delay = Null
    /\ event.params.delay = Unit(50, "ms")
    /\ intermediateValue = Intermediate(<<"opacity", "200ms", "50ms">>)

\* C4: OnCancel with a buffer issues exactly one deleteTransitionLayer call for
\* this editor's index and leaves the buffer Unset; OnCancel with the buffer
\* Unset issues no call and changes nothing.
CancelClearsAndDeletes ==
    [][event'.op = "OnCancel" =>
           IF intermediateValue # Unset
           THEN /\ Len(deleteCalls') = Len(deleteCalls) + 1
                /\ SubSeq(deleteCalls', 1, Len(deleteCalls)) = deleteCalls
                /\ Last(deleteCalls').index = index
                /\ intermediateValue' = Unset
                /\ UNCHANGED <<editCalls, layer, index>>
           ELSE UNCHANGED component]_vars

\* a cancel has deleted the layer once and left the buffer Unset
CancelClearsAndDeletesWitness ==
    /\ event.op = "OnCancel"
    /\ intermediateValue = Unset
    /\ Len(deleteCalls) = 1
    /\ deleteCalls[1].index = index

\* C5: an OnCommitRequest(options) whose buffer text parses invokes onEditLayer
\* exactly once, with the parsed layers, this editor's index and the options
\* it was given, and issues no deletion.
CommitPassesOptions ==
    [][(CommitRequestStep /\ parseTransition(ParsedText).type = "layers") =>
           /\ editCalls' = Append(editCalls,
                  EditCall(index, parseTransition(ParsedText), event'.options))
           /\ deleteCalls' = deleteCalls]_vars

\* the same text was committed on blur and on Enter: the two calls differ in
\* the flag alone
CommitPassesOptionsWitness ==
    /\ event.op = "OnCommitRequest"
    /\ Len(editCalls) = 2
    /\ editCalls[1].layers = editCalls[2].layers
    /\ editCalls[1].index = editCalls[2].index
    /\ editCalls[1].options.isEphemeral # editCalls[2].options.isEphemeral
    /\ editCalls[2].options = event.options

\* C6: an OnCommitRequest whose buffer text parses leaves the buffer as it was,
\* kind and text.
CommitKeepsBuffer ==
    [][(CommitRequestStep /\ parseTransition(ParsedText).type = "layers") =>
           intermediateValue' = intermediateValue]_vars

\* typed text was committed and is still in the buffer
CommitKeepsBufferWitness ==
    /\ event.op = "OnCommitRequest"
    /\ intermediateValue = Intermediate(<<"opacity", "200ms", ",", "ease", "0s">>)
    /\ Len(editCalls) = 1
    /\ editCalls[1].layers = parseTransition(intermediateValue.value)

\* C7: when the parse fails the buffer becomes Invalid with exactly the text
\* that was parsed (the buffer's text for OnCommitRequest, the serialized tuple
\* for OnFieldEdit), nothing else changes and no call is made.
InvalidKeepsText ==
    [][(ParsingStep /\ parseTransition(ParsedText).type = "invalid") =>
           /\ intermediateValue' = Invalid(ParsedText)
           /\ UNCHANGED <<layer, index, editCalls, deleteCalls>>]_vars

\* a field edit gave a length as duration: the serialized text is shown invalid
InvalidKeepsTextWitness ==
    /\ event.op = "OnFieldEdit"
    /\ event.params.duration = Unit(10, "px")
    /\ intermediateValue = Invalid(<<"opacity", "10px">>)
    /\ editCalls = <<>>

\* C8: an OnFieldEdit whose serialized text parses sets the buffer to
\* Intermediate(serialized text), whatever the buffer was, and invokes
\* onEditLayer exactly once with the parse of that text, this editor's index and
\* the options given, which are {isEphemeral: false} when omitted.
FieldEditCommits ==
    [][(FieldEditStep /\ parseTransition(ParsedText).type = "layers") =>
           /\ intermediateValue' = Intermediate(ParsedText)
           /\ editCalls' = Append(editCalls,
                  EditCall(index, parseTransition(ParsedText),
                           IF event'.options = NoOptions
                           THEN [isEphemeral |-> FALSE] ELSE event'.options))
           /\ deleteCalls' = deleteCalls]_vars

\* a field edit without options, after a cancel, committed as final
FieldEditCommitsWitness ==
    /\ event.op = "OnFieldEdit"
    /\ event.options = NoOptions
    /\ Len(deleteCalls) = 1
    /\ Len(editCalls) = 1
    /\ editCalls[1].options = [isEphemeral |-> FALSE]
    /\ intermediateValue.type = "intermediate"
    /\ editCalls[1].layers = parseTransition(intermediateValue.value)

\* C9: OnCommitRequest with the buffer Unset changes nothing and issues no call.
CommitOnUnsetIsNoOp ==
    [][(event'.op = "OnCommitRequest" /\ intermediateValue = Unset) =>
           UNCHANGED component]_vars

\* a commit request after a cancel: nothing was committed
CommitOnUnsetIsNoOpWitness ==
    /\ event.op = "OnCommitRequest"
    /\ intermediateValue = Unset
    /\ editCalls = <<>>
    /\ Len(deleteCalls) = 1

\* C10 as stated: the layers of every call to onEditLayer are the parse of the
\* buffer text as it stood when the triggering event occurred.
CommitReflectsBufferBefore ==
    [][(editCalls' # editCalls) =>
           /\ intermediateValue # Unset
           /\ Last(editCalls').layers = parseTransition(intermediateValue.value)]_vars

\* C10: the layers of every call to onEditLayer are the parse of the buffer
\* text as the triggering operation leaves it: the unchanged text for
\* OnCommitRequest, the serialized tuple for OnFieldEdit.
CommitReflectsBufferAfter ==
    [][(editCalls' # editCalls) =>
           /\ intermediateValue'.type = "intermediate"
           /\ Last(editCalls').layers = parseTransition(intermediateValue'.value)
           /\ Last(editCalls').index = index]_vars

\* a field edit has committed the parse of the tuple it serialized, which is
\* now the buffer text
CommitReflectsBufferAfterWitness ==
    /\ event.op = "OnFieldEdit"
    /\ event.params.timing = Keyword("ease")
    /\ intermediateValue = Intermediate(<<"opacity", "200ms", "ease">>)
    /\ Len(editCalls) = 1
    /\ editCalls[1].layers = parseTransition(<<"opacity", "200ms", "ease">>)

----------------------------------------------------------------------------
(* Two instances *)

\* the buffer a handler leaves, from the buffer, the layer and the event of
\* its own instance alone
SoloBuffer ==
    CASE event'.op = "OnTextEdit" -> Intermediate(event'.text)
      [] event'.op = "OnCancel" -> Unset
      [] event'.op = "OnCommitRequest" ->
             IF intermediateValue = Unset THEN Unset
             ELSE IF parseTransition(intermediateValue.value).type = "invalid"
             THEN Invalid(intermediateValue.value)
             ELSE intermediateValue
      [] event'.op = "OnFieldEdit" ->
             LET text == SerializedText(event'.params)
             IN IF parseTransition(text).type = "invalid"
                THEN Invalid(text) ELSE Intermediate(text)

\* the calls a step adds to a log
Added(before, after) == SubSeq(after, Len(before) + 1, Len(after))

\* C11: with two instances on different indices, a handler of one instance
\* leaves the other instance's buffer, layer and index as they were, every call
\* to onEditLayer or deleteTransitionLayer it issues carries its own index and
\* not the other's, and the buffer it leaves is the one it leaves when it runs
\* alone; turning to the other instance changes neither buffer and issues no
\* call.
TwoEditorsIndependent ==
    [][IF event'.op = "focus"
       THEN /\ peer'.intermediateValue = intermediateValue
            /\ intermediateValue' = peer.intermediateValue
            /\ UNCHANGED <<editCalls, deleteCalls>>
       ELSE /\ peer' = peer
            /\ index # peer.index
            /\ intermediateValue' = SoloBuffer
            /\ SubSeq(editCalls', 1, Len(editCalls)) = editCalls
            /\ SubSeq(deleteCalls', 1, Len(deleteCalls)) = deleteCalls
            /\ LET added == Added(editCalls, editCalls')
               IN \A k \in 1..Len(added) : added[k].index = index
            /\ LET added == Added(deleteCalls, deleteCalls')
               IN \A k \in 1..Len(added) : added[k].index = index]_vars

\* the instance at index 1 has committed a field edit while the instance at
\* index 0 holds text typed before
TwoEditorsIndependentWitness ==
    /\ peer # NoPeer
    /\ event.op = "OnFieldEdit"
    /\ index = 1
    /\ peer.index = 0
    /\ peer.intermediateValue = Intermediate(<<"not", "a", "transition">>)
    /\ Len(editCalls) = 1
    /\ editCalls[1].index = 1
    /\ intermediateValue = Intermediate(toValue(NewLayer(event.params)))

----------------------------------------------------------------------------
(* The tuple of a field edit *)

Item(v) == IF v = Null THEN <<>> ELSE <<v>>

ItemsKept(params) ==
    Item(FieldKept(params, "property")) \o Item(FieldKept(params, "duration"))
        \o Item(FieldKept(params, "delay")) \o Item(FieldKept(params, "timing"))

\* C12: the tuple OnFieldEdit hands to the serializer lists the fields it has
\* in the order property, duration, delay, timing, whichever field the edit
\* names, and every entry of it is a keyword or a unit, none null or absent;
\* the text of the buffer is the text of that tuple.
FieldOrderFixed ==
    [][FieldEditStep =>
           LET tuple == NewLayer(event'.params)
           IN /\ \A k \in 1..Len(tuple.value) :
                     /\ tuple.value[k] # Null
                     /\ tuple.value[k] # NotGiven
                     /\ tuple.value[k].type \in {"keyword", "unit"}
              /\ tuple.value = ItemsKept(event'.params)
              /\ intermediateValue'.value = toValue(tuple)]_vars

\* the delay sub-editor gave a delay: it is the third of four entries
FieldOrderFixedWitness ==
    /\ event.op = "OnFieldEdit"
    /\ event.via = "setValue"
    /\ event.params.delay = Unit(50, "ms")
    /\ NewLayer(event.params).value =
           <<Keyword("opacity"), Unit(200, "ms"), Unit(50, "ms"), Keyword("ease")>>
    /\ intermediateValue = Intermediate(<<"opacity", "200ms", "50ms", "ease">>)

----------------------------------------------------------------------------
(* The kinds of the buffer *)

\* C13: on mount the buffer is Intermediate(text of the layer), and a step
\* that leaves the buffer Unset when it was not is an OnCancel: OnTextEdit,
\* OnCommitRequest and OnFieldEdit never produce Unset.
UnsetOnlyByCancel ==
    /\ intermediateValue = Intermediate(toValue(layer))
    /\ [][/\ (intermediateValue' = Unset /\ intermediateValue # Unset) =>
                 event'.op = "OnCancel"
          /\ event'.op \in {"OnTextEdit", "OnFieldEdit"} => intermediateValue' # Unset
          /\ (event'.op = "OnCommitRequest" /\ intermediateValue # Unset) =>
                 intermediateValue' # Unset]_vars

\* text was typed after a cancel: the buffer is no longer Unset
UnsetOnlyByCancelWitness ==
    /\ event.op = "OnTextEdit"
    /\ Len(deleteCalls) = 1
    /\ editCalls = <<>>
    /\ intermediateValue = Intermediate(<<"opacity", "50ms">>)

\* C14: the buffer is Unset, Intermediate(text) or Invalid(text) and nothing
\* else; the text area shows the text of the buffer, and the empty text when
\* the buffer is Unset; it is shown as an error exactly when the buffer is
\* Invalid.
BufferKindsAndDisplay ==
    /\ \/ intermediateValue = Unset
       \/ /\ DOMAIN intermediateValue = {"type", "value"}
          /\ intermediateValue.type \in {"intermediate", "invalid"}
          /\ intermediateValue.value \in Seq(STRING)
    /\ intermediateValue = Unset => TextAreaValue = <<>>
    /\ intermediateValue # Unset => TextAreaValue = intermediateValue.value
    /\ (TextAreaColor = "error") <=>
           (intermediateValue # Unset /\ intermediateValue.type = "invalid")

\* text that does not parse is shown as it was typed, as an error
BufferKindsAndDisplayWitness ==
    /\ intermediateValue = Invalid(<<"not", "a", "transition">>)
    /\ TextAreaValue = <<"not", "a", "transition">>
    /\ TextAreaColor = "error"

----------------------------------------------------------------------------
(* Round trip *)

\* the tuple is built from the fields the extractor returns for it, and its
\* duration and delay are times
Extractable(tuple) ==
    LET e == extractTransitionProperties(tuple)
    IN /\ tuple.value # <<>>
       /\ tuple.value = Item(e.property) \o Item(e.duration) \o Item(e.delay) \o Item(e.timing)
       /\ \A k \in 1..Len(tuple.value) :
              tuple.value[k].type = "unit" => tuple.value[k].unit \in TimeUnits

\* the fields of a tuple, the absent ones at their defaults
FieldsDefaulted(tuple) ==
    LET e == extractTransitionProperties(tuple)
    IN [f \in Fields |-> IF e[f] = Null THEN DefaultOf(f) ELSE e[f]]

\* parseTransition(toValue(L)) is one layer with the fields of L
RoundTrips(L) ==
    LET r == parseTransition(toValue(L))
    IN /\ r.type = "layers"
       /\ Len(r.value) = 1
       /\ r.value[1].type = "tuple"
       /\ FieldsDefaulted(r.value[1]) = FieldsDefaulted(L)
       /\ extractTransitionProperties(r.value[1]) = extractTransitionProperties(L)

----------------------------------------------------------------------------
(* Deleting a field in a sub-editor *)

FieldDeleteStep == FieldEditStep /\ event'.via = "deleteProperty"

\* the field the sub-editor asked to delete
DeletedField == CHOOSE f \in Fields : event'.params[f] # NotGiven

\* C16 as stated: when the duration or delay sub-editor asks to delete its
\* field, the layer serialized and committed has the configured default in
\* that field.
ClearedFieldDefaulted ==
    [][FieldDeleteStep =>
           LET text == TextKept([NoParams EXCEPT ![DeletedField] = DefaultOf(DeletedField)])
           IN /\ intermediateValue' = Intermediate(text)
              /\ editCalls' = Append(editCalls,
                     EditCall(index, parseTransition(text), [isEphemeral |-> FALSE]))]_vars

\* C16: when the duration or delay sub-editor asks to delete its field, the
\* edit is given the value the field has in the layer: the text serialized is
\* the text of the layer's own fields, with that field at its previous value or
\* left out if the layer has none, and it is committed as final.
ClearedFieldKept ==
    [][FieldDeleteStep =>
           LET text == TextKept(NoParams)
               current == extractTransitionProperties(layer)[DeletedField]
           IN /\ event'.params[DeletedField] = current
              /\ intermediateValue'.value = text
              /\ intermediateValue'.value = TextKept(event'.params)
              /\ parseTransition(text).type = "layers" =>
                     /\ intermediateValue' = Intermediate(text)
                     /\ editCalls' = Append(editCalls,
                            EditCall(index, parseTransition(text),
                                     [isEphemeral |-> FALSE]))]_vars

\* the duration sub-editor asked to delete a duration of 200ms: it is still
\* there, and committed
ClearedFieldKeptWitness ==
    /\ event.op = "OnFieldEdit"
    /\ event.via = "deleteProperty"
    /\ event.params.duration = Unit(200, "ms")
    /\ intermediateValue = Intermediate(<<"opacity", "200ms">>)
    /\ Len(editCalls) = 1
    /\ editCalls[1].layers = parseTransition(<<"opacity", "200ms">>)
    /\ editCalls[1].options = [isEphemeral |-> FALSE]

----------------------------------------------------------------------------
(* The Invalid buffer *)

IsInvalid(buffer) == buffer # Unset /\ buffer.type = "invalid"

\* C17: the text of an Invalid buffer never parses; so an OnCommitRequest on an
\* Invalid buffer makes no call to onEditLayer and leaves the buffer as it is,
\* and the buffer stops being Invalid only by OnTextEdit, by an OnFieldEdit whose
\* serialized text parses, or by OnCancel.
InvalidBufferStaysInvalid ==
    /\ [](IsInvalid(intermediateValue) =>
              parseTransition(intermediateValue.value).type = "invalid")
    /\ [][IsInvalid(intermediateValue) =>
              /\ event'.op = "OnCommitRequest" =>
                     /\ editCalls' = editCalls
                     /\ intermediateValue' = intermediateValue
              /\ ~IsInvalid(intermediateValue') =>
                     \/ event'.op \in {"OnTextEdit", "OnCancel"}
                     \/ /\ FieldEditStep
                        /\ parseTransition(ParsedText).type = "layers"]_vars

\* a field edit left the buffer Invalid, and a commit was requested on it
InvalidBufferStaysInvalidWitness ==
    /\ event.op = "OnCommitRequest"
    /\ intermediateValue = Invalid(<<"opacity", "10px">>)
    /\ editCalls = <<>>
    /\ deleteCalls = <<>>

----------------------------------------------------------------------------
(* What a field edit depends on *)

\* the tuple handlePropertyUpdate builds, from the layer l and the fields given
MergedOver(l, params) ==
    [type |-> "tuple",
     value |-> SelectSeq([k \in 1..4 |->
                             IF IsGiven(params[FieldOrder[k]])
                             THEN params[FieldOrder[k]]
                             ELSE extractTransitionProperties(l)[FieldOrder[k]]],
                         IsPresent)]

\* the buffer handlePropertyUpdate sets and the calls it adds, from the layer l,
\* the index i, the fields given and the options
FieldEditOutcome(l, i, params, options) ==
    LET text == toValue(MergedOver(l, params))
        layers == parseTransition(text)
    IN IF layers.type = "invalid"
       THEN [buffer |-> Invalid(text), calls |-> <<>>]
       ELSE [buffer |-> Intermediate(text),
             calls |-> <<EditCall(i, layers, OptionsOrDefault(options))>>]

\* C18: the buffer an OnFieldEdit leaves and the call it makes are a function of
\* the layer, the index, the fields given and the options, and of nothing else:
\* the buffer before the step, whether typed text, the mounted text or Unset,
\* has no part in them, and the text typed is replaced.
FieldEditIgnoresBuffer ==
    [][FieldEditStep =>
           LET outcome == FieldEditOutcome(layer, index, event'.params, event'.options)
           IN /\ intermediateValue' = outcome.buffer
              /\ editCalls' = editCalls \o outcome.calls
              /\ deleteCalls' = deleteCalls]_vars

\* a field edit after a cancel, so on a buffer that was Unset or typed since:
\* the text and the commit are those of the layer with the timing given
FieldEditIgnoresBufferWitness ==
    /\ event.op = "OnFieldEdit"
    /\ event.params.timing = Keyword("ease")
    /\ layer.value = <<Keyword("opacity"), Unit(200, "ms")>>
    /\ Len(deleteCalls) = 1
    /\ Len(editCalls) = 1
    /\ intermediateValue = Intermediate(<<"opacity", "200ms", "ease">>)
    /\ editCalls[1].layers = parseTransition(<<"opacity", "200ms", "ease">>)

----------------------------------------------------------------------------
(* What a cancel asks for *)

\* C19: OnCancel never invokes onEditLayer, and the deletion it asks for, from
\* an Intermediate buffer as from an Invalid one, is for this editor's index
\* and ephemeral; so every deletion asked for so far is an ephemeral one.
CancelIsEphemeral ==
    /\ [](\A k \in 1..Len(deleteCalls) : deleteCalls[k].options.isEphemeral)
    /\ [][event'.op = "OnCancel" =>
              /\ editCalls' = editCalls
              /\ intermediateValue # Unset =>
                     deleteCalls' = Append(deleteCalls,
                         DeleteCall(index, [isEphemeral |-> TRUE]))]_vars

\* a cancel after a commit: one call to onEditLayer, made before, and one
\* ephemeral deletion
CancelIsEphemeralWitness ==
    /\ event.op = "OnCancel"
    /\ Len(editCalls) = 1
    /\ deleteCalls = <<DeleteCall(index, [isEphemeral |-> TRUE])>>
    /\ intermediateValue = Unset

====
